---------------------------- MODULE Spec2Model ----------------------------
(***************************************************************************)
(* Prompt Library: the collection of prompt records kept in localStorage   *)
(* under the single key 'promptLibrary.prompts', and the handlers that     *)
(* read, mutate and re-write it.  Two iterations of the script share the   *)
(* key: the simple one (src/script.js) and the metadata-tracking one       *)
(* (src/unnamed/part_000).                                                 *)
(*                                                                         *)
(* Text the code trims or counts is a sequence of one-character strings;   *)
(* text the code only stores and compares is a TLA+ string.                *)
(***************************************************************************)
EXTENDS Integers, Sequences, FiniteSets, TLC

\* ----------------------------------------------------------------- bounds
\* Largest value the clock (Date.now()) takes.
MaxClock == 2
\* Most records the store holds before the form stops being submitted.
MaxPrompts == 2
\* Most notes held by the whole store before addNote stops being called.
MaxNotes == 1
\* The same, in the specification of the notes alone.
MaxNotesDeep == 2
\* Most records and notes together where every handler runs on one form's
\* records.
MaxItems == 3
\* Most words, and most characters of a word, in the short texts whose
\* tokens are estimated.
MaxWords == 5
MaxWordLen == 3

\* ------------------------------------------------------ program constants
\* trackModel: modelName.length > 100 is rejected.
MaxModelLen == 100
\* setRating: value < 1 || value > 5 is rejected.
MinRating == 1
MaxRating == 5

\* ------------------------------------------------------------------- text
\* The characters String.prototype.trim() strips (one stands for all).
IsSpace(c) == c = " "

RECURSIVE TrimStart(_)
TrimStart(s) ==
    IF s = <<>> THEN <<>>
    ELSE IF IsSpace(Head(s)) THEN TrimStart(Tail(s)) ELSE s

RECURSIVE TrimEnd(_)
TrimEnd(s) ==
    IF s = <<>> THEN <<>>
    ELSE IF IsSpace(s[Len(s)]) THEN TrimEnd(SubSeq(s, 1, Len(s) - 1)) ELSE s

\* String.prototype.trim()
Trim(s) == TrimEnd(TrimStart(s))

\* text.trim().split(/\s+/).filter(Boolean).length: the number of maximal
\* runs of non-space characters.
WordCount(s) ==
    Cardinality({i \in 1..Len(s) :
                    /\ ~IsSpace(s[i])
                    /\ (i = 1 \/ IsSpace(s[i - 1]))})

\* n copies of the character c.
Repeat(c, n) == [i \in 1..n |-> c]

\* String(n) for a non-negative integer: its decimal digits.
RECURSIVE String(_)
String(n) == IF n < 10 THEN <<n>> ELSE String(n \div 10) \o <<n % 10>>

\* ------------------------------------------------------------- estimator
\* Math.floor(num / den) for num >= 0, den > 0.
FloorDiv(num, den) == num \div den

\* Math.round(num / den) for num >= 0, den > 0: halves round up.
RoundDiv(num, den) == (2 * num + den) \div (2 * den)

Confidence(min, max) ==
    IF min + max < 2 * 1000 THEN "high"
    ELSE IF min + max <= 2 * 5000 THEN "medium"
    ELSE "low"

estimateTokens(text, isCode) ==
    LET wordCount == WordCount(text)
        charCount == Len(text)
        min0 == RoundDiv(3 * wordCount, 4)
        max0 == RoundDiv(charCount, 4)
        min == IF isCode THEN RoundDiv(13 * min0, 10) ELSE min0
        max == IF isCode THEN RoundDiv(13 * max0, 10) ELSE max0
    IN  [min |-> min, max |-> max, confidence |-> Confidence(min, max)]

\* A JavaScript value as estimateTokens sees it: its typeof, and its
\* characters when it is a string.
Value(type, text) == [type |-> type, text |-> text]

\* estimateTokens(value, isCode) with its typeof check: the Error thrown,
\* or the estimate returned.
estimateTokensCall(value, isCode) ==
    IF value.type # "string"
    THEN [threw |-> TRUE, error |-> "Text must be a string",
          estimate |-> [min |-> 0, max |-> 0, confidence |-> "none"]]
    ELSE [threw |-> FALSE, error |-> "", estimate |-> estimateTokens(value.text, isCode)]

\* ---------------------------------------------------------------- records
\* The metadata field's place holder in a record that has none.
NoMetadata ==
    [model |-> <<>>, createdAt |-> <<0, 0>>, updatedAt |-> <<0, 0>>,
     tokenEstimate |-> [min |-> 0, max |-> 0, confidence |-> "none"]]

\* The validation with the length taken after trimming.
trackModelErrorTrimmed(modelName) ==
    IF Len(Trim(modelName)) = 0 THEN "Model name must be a non-empty string"
    ELSE IF Len(Trim(modelName)) > MaxModelLen
         THEN "Model name must not exceed 100 characters"
    ELSE "ok"

\* trackModel's validation: the error it throws, or "ok".
trackModelError(modelName) ==
    IF Len(Trim(modelName)) = 0 THEN "Model name must be a non-empty string"
    ELSE IF Len(modelName) > MaxModelLen
         THEN "Model name must not exceed 100 characters"
    ELSE "ok"

\* trackModel's result for a valid model name; now is new Date().toISOString().
trackModel(modelName, content, now) ==
    [model |-> Trim(modelName), createdAt |-> now, updatedAt |-> now,
     tokenEstimate |-> estimateTokens(content, FALSE)]

\* NewPrompt with the title stored as typed.
NewPromptUntrimmed(id, title, content, hasMeta, metadata) ==
    [id |-> id, title |-> title, content |-> Trim(content),
     hasRating |-> TRUE, userRating |-> 0,
     hasNotes |-> FALSE, notes |-> <<>>,
     hasMeta |-> hasMeta, metadata |-> metadata]

\* The object addPrompt unshifts.  A field the object literal does not set
\* (notes; metadata in the simple variant) is absent: has* is FALSE.
NewPrompt(id, title, content, hasMeta, metadata) ==
    [id |-> id, title |-> Trim(title), content |-> Trim(content),
     hasRating |-> TRUE, userRating |-> 0,
     hasNotes |-> FALSE, notes |-> <<>>,
     hasMeta |-> hasMeta, metadata |-> metadata]

NewNote(id, text, updatedAt) == [id |-> id, text |-> text, updatedAt |-> updatedAt]

\* ---------------------------------------------------------------- storage
\* The value of localStorage[STORAGE_KEY] is a text or null.  kind names
\* what the text is: "absent" (null), "empty" (''), "corrupt" (JSON.parse
\* throws), or the JSON value it parses to: "array", "null", "object",
\* "string" (non-empty).  arr is the array's elements.
Blob(kind, arr) == [kind |-> kind, arr |-> arr]

\* JSON.stringify(prompts) of an array of records.
Stringify(prompts) == Blob("array", prompts)

\* getPrompts(): raw ? JSON.parse(raw) : [], and [] when the parse throws.
\* The result is a JSON value, again tagged with its kind.
getPrompts(raw) ==
    IF raw.kind \in {"absent", "empty", "corrupt"} THEN Blob("array", <<>>)
    ELSE raw

\* savePrompts(prompts): the new value of the key.  setItem throws when the
\* quota is exceeded (writeOk = FALSE); the catch logs and the key keeps
\* its value.
savePrompts(raw, prompts, writeOk) ==
    IF writeOk THEN Stringify(prompts) ELSE raw


\* ------------------------------------------------------------------ dates
\* new Date(ms).toISOString(): the fixed-width text of the instant, kept as
\* its seconds and milliseconds parts.
toISOString(ms) == <<ms \div 1000, ms % 1000>>

\* new Date(isoString) as a number (its epoch milliseconds).
DateValue(iso) == 1000 * iso[1] + iso[2]

\* ----------------------------------------------------------------- render
\* The defaults written whether or not the record has the fields.
NormalizeAlways(p) ==
    [p EXCEPT !.userRating = 0, !.hasRating = TRUE,
              !.notes = <<>>, !.hasNotes = TRUE]

\* renderPrompts' forEach body, data part: the backwards-compatibility
\* defaults it writes on the in-memory object.
Normalize(p) ==
    [p EXCEPT !.userRating = IF p.hasRating THEN @ ELSE 0,
              !.hasRating = TRUE,
              !.notes = IF p.hasNotes THEN @ ELSE <<>>,
              !.hasNotes = TRUE]

\* a.metadata?.createdAt || 0, as a Date value.
SortKey(p) == IF p.hasMeta THEN DateValue(p.metadata.createdAt) ELSE 0

\* x put into a sequence already sorted newest first, ahead of the first
\* element that is not newer than it.
RECURSIVE InsertByDate(_, _)
InsertByDate(x, s) ==
    IF s = <<>> THEN <<x>>
    ELSE IF SortKey(Head(s)) <= SortKey(x) THEN <<x>> \o s
    ELSE <<Head(s)>> \o InsertByDate(x, Tail(s))

\* [...prompts].sort((a, b) => new Date(bDate) - new Date(aDate)): a stable
\* sort, newest createdAt first.
RECURSIVE SortNewestFirst(_)
SortNewestFirst(s) ==
    IF s = <<>> THEN <<>>
    ELSE InsertByDate(Head(s), SortNewestFirst(Tail(s)))

\* prompts.forEach(p => ...): every record normalized, in order.
NormalizeAll(s) == [i \in 1..Len(s) |-> Normalize(s[i])]

\* renderPrompts(): the cards it leaves in listEl (each the normalized
\* record it was built from) and whether it ended in an uncaught TypeError.
renderPrompts(raw, tracking) ==
    LET prompts == getPrompts(raw) IN
    IF prompts.kind = "null" THEN [cards |-> <<>>, threw |-> TRUE]
    ELSE IF prompts.kind = "object" THEN [cards |-> <<>>, threw |-> FALSE]
    ELSE IF prompts.kind = "string" THEN [cards |-> <<>>, threw |-> TRUE]
    ELSE [cards |-> NormalizeAll(IF tracking THEN SortNewestFirst(prompts.arr)
                                 ELSE prompts.arr),
          threw |-> FALSE]

\* --------------------------------------------------------------- handlers
\* What a handler leaves behind: the key's value, the rendered cards, how
\* it ended ("done", "noop": an early return, "rejected": validation,
\* "alert": trackModel's error shown, "threw": an uncaught TypeError) and
\* what became of its setItem ("none": not called, "ok", "failed").
\* rendered: whether renderPrompts ran and rebuilt listEl.
Effect(st, cards, out, wrote) ==
    [storage |-> st, view |-> cards, out |-> out, wrote |-> wrote,
     rendered |-> FALSE]

\* A render that writes the records it normalized back to the key.
renderSaving(raw, tracking) ==
    LET r == renderPrompts(raw, tracking)
        st == IF r.threw \/ getPrompts(raw).kind # "array" THEN raw
              ELSE Stringify(r.cards)
    IN  [Effect(st, r.cards, IF r.threw THEN "threw" ELSE "done", "ok")
            EXCEPT !.rendered = TRUE]

\* renderPrompts() as a handler (DOMContentLoaded, the Cancel button): the
\* key is read, never written.
render(raw, tracking) ==
    LET r == renderPrompts(raw, tracking)
    IN  [Effect(raw, r.cards, IF r.threw THEN "threw" ELSE "done", "none")
            EXCEPT !.rendered = TRUE]

\* savePrompts(prompts); renderPrompts(); the tail of every mutation.
SaveAndRender(raw, prompts, tracking, writeOk) ==
    LET st == savePrompts(raw, prompts, writeOk)
        r == renderPrompts(st, tracking)
    IN  [Effect(st, r.cards, IF r.threw THEN "threw" ELSE "done",
                IF writeOk THEN "ok" ELSE "failed")
            EXCEPT !.rendered = TRUE]

\* prompts.push(x)
Push(s, x) == s \o <<x>>

\* prompts.unshift(x)
Unshift(s, x) == <<x>> \o s

\* A find whose test holds of every record: the first record, whatever
\* its id.
FindPromptAny(prompts, id) == IF prompts = <<>> THEN 0 ELSE 1

\* prompts.find(p => String(p.id) === String(id)): the index of the first
\* match, 0 when there is none.
FindPrompt(prompts, id) ==
    LET hits == {i \in 1..Len(prompts) : String(prompts[i].id) = String(id)}
    IN  IF hits = {} THEN 0 ELSE CHOOSE i \in hits : \A j \in hits : i <= j

\* prompt.notes.find(n => String(n.id) === String(noteId)), likewise.
FindNote(notes, noteId) ==
    LET hits == {i \in 1..Len(notes) : String(notes[i].id) = String(noteId)}
    IN  IF hits = {} THEN 0 ELSE CHOOSE i \in hits : \A j \in hits : i <= j

\* addPrompt(title, content[, modelName]).  t1 and t2 are the clock's two
\* readings: new Date() in trackModel, then Date.now() for the id.
addPrompt(raw, cards, tracking, title, content, modelName, t1, t2, writeOk) ==
    LET prompts == getPrompts(raw) IN
    IF tracking /\ trackModelError(modelName) # "ok"
    THEN Effect(raw, cards, "alert", "none")
    ELSE IF prompts.kind # "array" THEN Effect(raw, cards, "threw", "none")
    ELSE SaveAndRender(raw,
            Unshift(prompts.arr,
                    NewPrompt(t2, title, content, tracking,
                              IF tracking
                              THEN trackModel(modelName, content, toISOString(t1))
                              ELSE NoMetadata)),
            tracking, writeOk)

\* The form's submit handler: the early exit on blank fields, then addPrompt.
submitForm(raw, cards, tracking, title, content, modelName, t1, t2, writeOk) ==
    IF \/ Len(Trim(title)) = 0
       \/ Len(Trim(content)) = 0
       \/ (tracking /\ Len(Trim(modelName)) = 0)
    THEN Effect(raw, cards, "rejected", "none")
    ELSE addPrompt(raw, cards, tracking, title, content, modelName, t1, t2, writeOk)

\* Removal by prompts.splice(prompts.findIndex(...), 1): the first match
\* only, and the last record when nothing matches (index -1).
WithoutPromptSplice(prompts, id) ==
    LET hits == {i \in 1..Len(prompts) : String(prompts[i].id) = String(id)}
        k == IF hits = {} THEN Len(prompts)
             ELSE CHOOSE i \in hits : \A j \in hits : i <= j
    IN  SubSeq(prompts, 1, k - 1) \o SubSeq(prompts, k + 1, Len(prompts))

\* prompts.filter(p => String(p.id) !== String(id))
WithoutPrompt(prompts, id) ==
    SelectSeq(prompts, LAMBDA p : String(p.id) # String(id))

deletePrompt(raw, cards, tracking, id, writeOk) ==
    LET prompts == getPrompts(raw) IN
    IF prompts.kind # "array" THEN Effect(raw, cards, "threw", "none")
    ELSE SaveAndRender(raw, WithoutPrompt(prompts.arr, id), tracking, writeOk)

\* The range check with its upper edge off by one.
RatingRejectedBelowMax(value) == value < MinRating \/ value >= MaxRating

\* The range check without its lower edge.
RatingRejectedAbove(value) == value > MaxRating

\* setRating's range check: value < 1 || value > 5.
RatingRejected(value) == value < MinRating \/ value > MaxRating

setRating(raw, cards, tracking, id, value, writeOk) ==
    LET prompts == getPrompts(raw) IN
    IF RatingRejected(value) THEN Effect(raw, cards, "noop", "none")
    ELSE IF prompts.kind # "array" THEN Effect(raw, cards, "threw", "none")
    ELSE LET i == FindPrompt(prompts.arr, id) IN
         IF i = 0 THEN Effect(raw, cards, "noop", "none")
         ELSE SaveAndRender(raw,
                 [prompts.arr EXCEPT ![i].userRating = value,
                                     ![i].hasRating = TRUE],
                 tracking, writeOk)

\* The keydown handler's next star: Math.min(5, current + 1) for
\* ArrowRight, Math.max(1, current - 1) for ArrowLeft.
nextStar(current, key) ==
    IF key = "ArrowRight"
    THEN (IF current + 1 < MaxRating THEN current + 1 ELSE MaxRating)
    ELSE (IF current - 1 > MinRating THEN current - 1 ELSE MinRating)

\* The keydown handler on a star: setRating when the star changes.
keyRating(raw, cards, tracking, id, current, key, writeOk) ==
    IF nextStar(current, key) = current THEN Effect(raw, cards, "noop", "none")
    ELSE setRating(raw, cards, tracking, id, nextStar(current, key), writeOk)

\* addNote(promptId, text).  t1 and t2 are the two Date.now() readings of
\* the note literal: id, then updatedAt.
addNote(raw, cards, tracking, promptId, text, t1, t2, writeOk) ==
    LET prompts == getPrompts(raw) IN
    IF prompts.kind # "array" THEN Effect(raw, cards, "threw", "none")
    ELSE LET i == FindPrompt(prompts.arr, promptId) IN
         IF i = 0 THEN Effect(raw, cards, "noop", "none")
         ELSE LET old == IF prompts.arr[i].hasNotes
                         THEN prompts.arr[i].notes ELSE <<>>
              IN  SaveAndRender(raw,
                     [prompts.arr EXCEPT
                         ![i].notes = Unshift(old, NewNote(t1, text, t2)),
                         ![i].hasNotes = TRUE],
                     tracking, writeOk)

\* Removal by notes.splice(notes.findIndex(...), 1): the last note goes
\* when nothing matches (index -1).
WithoutNoteSplice(notes, noteId) ==
    LET hits == {i \in 1..Len(notes) : String(notes[i].id) = String(noteId)}
        k == IF hits = {} THEN Len(notes)
             ELSE CHOOSE i \in hits : \A j \in hits : i <= j
    IN  SubSeq(notes, 1, k - 1) \o SubSeq(notes, k + 1, Len(notes))

\* prompt.notes.filter(n => String(n.id) !== String(noteId))
WithoutNote(notes, noteId) ==
    SelectSeq(notes, LAMBDA n : String(n.id) # String(noteId))

\* deleteNote(promptId, noteId); 0 stands for a falsy argument.
deleteNote(raw, cards, tracking, promptId, noteId, writeOk) ==
    LET prompts == getPrompts(raw) IN
    IF promptId = 0 \/ noteId = 0 THEN Effect(raw, cards, "noop", "none")
    ELSE IF prompts.kind # "array" THEN Effect(raw, cards, "threw", "none")
    ELSE LET i == FindPrompt(prompts.arr, promptId) IN
         IF i = 0 THEN Effect(raw, cards, "noop", "none")
         ELSE IF ~prompts.arr[i].hasNotes THEN Effect(raw, cards, "noop", "none")
         ELSE SaveAndRender(raw,
                 [prompts.arr EXCEPT
                     ![i].notes = WithoutNote(@, noteId)],
                 tracking, writeOk)

\* updateNote(promptId, noteId, text); now is its Date.now().
updateNote(raw, cards, tracking, promptId, noteId, text, now, writeOk) ==
    LET prompts == getPrompts(raw) IN
    IF prompts.kind # "array" THEN Effect(raw, cards, "threw", "none")
    ELSE LET i == FindPrompt(prompts.arr, promptId) IN
         IF i = 0 THEN Effect(raw, cards, "noop", "none")
         ELSE IF ~prompts.arr[i].hasNotes THEN Effect(raw, cards, "noop", "none")
         ELSE LET k == FindNote(prompts.arr[i].notes, noteId) IN
              IF k = 0 THEN Effect(raw, cards, "noop", "none")
              ELSE SaveAndRender(raw,
                      [prompts.arr EXCEPT
                          ![i].notes[k].text = text,
                          ![i].notes[k].updatedAt = now],
                      tracking, writeOk)

\* listEl.querySelector('.prompt-card[data-id="' + id + '"]'): the index
\* of the first card with the id, 0 when there is none.
FindCard(cards, id) ==
    LET hits == {i \in 1..Len(cards) : String(cards[i].id) = String(id)}
    IN  IF hits = {} THEN 0 ELSE CHOOSE i \in hits : \A j \in hits : i <= j

\* enterEditMode(promptId, noteId): the notes of listEl shown as a textarea
\* afterwards.  A note is <<card, li>>, its place in the list; one already
\* in edit mode has no .note-text and is left alone.
enterEditMode(cards, editing, promptId, noteId) ==
    LET i == FindCard(cards, promptId) IN
    IF i = 0 THEN editing
    ELSE LET k == FindNote(cards[i].notes, noteId) IN
         IF k = 0 \/ <<i, k>> \in editing THEN editing
         ELSE editing \cup {<<i, k>>}

\* ----------------------------------------------------------------- import
\* mergeById(existing, incoming), which neither script has: the README's
\* "merges without duplicates", "existing IDs preserved", "new IDs are
\* skipped".  The incoming records whose id is not yet present are added
\* one by one, the existing records stay as they are, and the result is
\* put newest first.
RECURSIVE AddMissing(_, _)
AddMissing(existing, incoming) ==
    IF incoming = <<>> THEN existing
    ELSE AddMissing(
            IF \E i \in 1..Len(existing) :
                  String(existing[i].id) = String(Head(incoming).id)
            THEN existing
            ELSE Unshift(existing, Head(incoming)),
            Tail(incoming))

mergeById(existing, incoming) == SortNewestFirst(AddMissing(existing, incoming))

\* Import of a file of well-formed entries: merge, save, render.
importPrompts(raw, cards, tracking, incoming, writeOk) ==
    LET prompts == getPrompts(raw) IN
    IF prompts.kind # "array" THEN Effect(raw, cards, "threw", "none")
    ELSE SaveAndRender(raw, mergeById(prompts.arr, incoming), tracking, writeOk)

\* ------------------------------------------------------------------ state
VARIABLES
    tracking,   \* which script runs: FALSE script.js, TRUE the tracking one
    faulty,     \* whether setItem can throw (quota) in this session
    storage,    \* the value of localStorage[STORAGE_KEY]
    clock,      \* the value Date.now() returns
    view,       \* the cards in listEl: the records last rendered
    editing,    \* the notes of listEl that show a textarea
    lastOp      \* the handler that has just run, until it returns

vars == <<tracking, faulty, storage, clock, view, editing, lastOp>>

\* ----------------------------------------------------------------- inputs
\* What the form is submitted with: <<title, content, modelName>>.  The
\* simple script has no model field and never reads the third.
Forms ==
    {<<<<" ", "a", " ">>, <<" ", " ", " ", "x", " ", "y">>, <<" ", "g", " ">>>>,
     <<<<" ", "a", " ">>, <<" ", " ", " ", "x", " ", "y">>, Repeat("g", MaxModelLen)>>,
     <<<<>>, <<"x">>, <<"g">>>>,
     <<<<"a">>, <<" ", " ">>, <<"g">>>>,
     <<<<"a">>, <<"x">>, <<" ">>>>,
     <<<<"a">>, <<"x">>, Repeat("g", MaxModelLen + 1)>>,
     <<<<"a">>, <<"x">>, Repeat("g", MaxModelLen - 1) \o <<" ", " ">>>>}
NoteTexts == {"n1", "n2"}
\* Identifiers a caller passes: every value the clock takes, and 0, which
\* no record or note has.
Ids == 0..MaxClock
\* Every rating a caller passes, and the values at the edges of the range.
RatingValues == (MinRating - 2)..(MaxRating + 1)
EdgeRatings == {MinRating - 1, MaxRating}
\* What the key can hold when the page opens on a store this code did not
\* write.
ForeignBlobs ==
    {Blob(k, <<>>) : k \in {"absent", "empty", "corrupt", "null", "object", "string"}}

WriteOutcomes == IF faulty THEN {TRUE, FALSE} ELSE {TRUE}
\* The clock's later readings within one handler.
Later(t) == {u \in {t, t + 1} : u <= MaxClock}

Stored == getPrompts(storage)
\* The collection a read of the key's value raw yields.
Coll(raw) == getPrompts(raw).arr

\* The record of a handler's run: its name, its arguments (those it does
\* not take are 0, <<>> or ""), how it ended, what became of its write,
\* and had: how many records the collection held when it started.
Op(op, id, noteId, value, title, content, modelName, text, e) ==
    [op |-> op, id |-> id, noteId |-> noteId, value |-> value, title |-> title,
     content |-> content, modelName |-> modelName, text |-> text,
     out |-> e.out, wrote |-> e.wrote, had |-> Len(Coll(storage))]
RECURSIVE SumNotes(_)
SumNotes(s) == IF s = <<>> THEN 0 ELSE Len(Head(s).notes) + SumNotes(Tail(s))
NoteCount == IF Stored.kind = "array" THEN SumNotes(Stored.arr) ELSE 0

\* The event loop is idle: no handler has run since the last one returned.
NoOp ==
    [op |-> "idle", id |-> 0, noteId |-> 0, value |-> 0, title |-> <<>>,
     content |-> <<>>, modelName |-> <<>>, text |-> "",
     out |-> "done", wrote |-> "none", had |-> 0]
Idle == lastOp = NoOp

\* ---------------------------------------------------------------- actions
\* A handler's run: its effect on the key and the list, and its record.
Apply(e, op) ==
    /\ Idle
    /\ storage' = e.storage
    /\ view' = e.view
    /\ editing' = IF e.rendered THEN {} ELSE editing
    /\ lastOp' = op
    /\ UNCHANGED <<tracking, faulty>>

\* Before DOMContentLoaded: nothing rendered, no handler run.
InitCommon ==
    /\ tracking \in BOOLEAN
    /\ clock = 1
    /\ view = <<>>
    /\ editing = {}
    /\ lastOp = NoOp

Init ==
    /\ faulty = FALSE
    /\ storage = Blob("absent", <<>>)
    /\ InitCommon

\* Time passes between two events.
Tick ==
    /\ Idle
    /\ clock < MaxClock
    /\ clock' = clock + 1
    /\ UNCHANGED <<tracking, faulty, storage, view, editing, lastOp>>

\* The handler returns to the event loop.
Return ==
    /\ ~Idle
    /\ lastOp' = NoOp
    /\ UNCHANGED <<tracking, faulty, storage, clock, view, editing>>

\* DOMContentLoaded, or the Cancel button of a note being edited.
Render ==
    LET e == render(storage, tracking)
    IN  /\ Apply(e, Op("render", 0, 0, 0, <<>>, <<>>, <<>>, "", e))
        /\ UNCHANGED clock

\* A click on a note's Edit button, or a call with other arguments.
EnterEditMode ==
    \E id \in Ids, noteId \in Ids :
        LET now == enterEditMode(view, editing, id, noteId)
            e == Effect(storage, view, IF now = editing THEN "noop" ELSE "done",
                        "none")
        IN  /\ Idle
            /\ editing' = now
            /\ lastOp' = Op("enterEditMode", id, noteId, 0, <<>>, <<>>, <<>>, "", e)
            /\ UNCHANGED <<tracking, faulty, storage, clock, view>>

SubmitFormOf(forms) ==
    \E form \in forms, writeOk \in WriteOutcomes,
       t2 \in (IF tracking THEN Later(clock) ELSE {clock}) :
        LET title == form[1]
            content == form[2]
            modelName == IF tracking THEN form[3] ELSE <<>>
            e == submitForm(storage, view, tracking, title, content, modelName,
                            clock, t2, writeOk)
        IN  /\ Stored.kind = "array" => Len(Stored.arr) < MaxPrompts
            /\ Apply(e, Op("submit", 0, 0, 0, title, content, modelName, "", e))
            /\ clock' = IF e.wrote = "none" THEN clock ELSE t2

DeletePrompt ==
    \E id \in Ids, writeOk \in WriteOutcomes :
        LET e == deletePrompt(storage, view, tracking, id, writeOk)
        IN  /\ Apply(e, Op("deletePrompt", id, 0, 0, <<>>, <<>>, <<>>, "", e))
            /\ UNCHANGED clock

SetRatingOf(values) ==
    \E id \in Ids, value \in values, writeOk \in WriteOutcomes :
        LET e == setRating(storage, view, tracking, id, value, writeOk)
        IN  /\ Apply(e, Op("setRating", id, 0, value, <<>>, <<>>, <<>>, "", e))
            /\ UNCHANGED clock

\* An arrow key on the star current of a card in the list; what is
\* recorded is the setRating call it makes, if it makes one.
KeyRatingOf(currents) ==
    \E c \in 1..Len(view), current \in currents, key \in {"ArrowRight", "ArrowLeft"},
       writeOk \in WriteOutcomes :
        LET id == view[c].id
            e == keyRating(storage, view, tracking, id, current, key, writeOk)
        IN  /\ Apply(e, Op(IF nextStar(current, key) = current THEN "keydown"
                            ELSE "setRating",
                            id, 0, nextStar(current, key), <<>>, <<>>, <<>>, "", e))
            /\ UNCHANGED clock

AddNoteOf(texts, most) ==
    \E id \in Ids, text \in texts, writeOk \in WriteOutcomes,
       t2 \in Later(clock) :
        LET e == addNote(storage, view, tracking, id, text, clock, t2, writeOk)
        IN  /\ NoteCount < most
            /\ Apply(e, Op("addNote", id, 0, 0, <<>>, <<>>, <<>>, text, e))
            /\ clock' = IF e.wrote = "none" THEN clock ELSE t2

DeleteNote ==
    \E id \in Ids, noteId \in Ids, writeOk \in WriteOutcomes :
        LET e == deleteNote(storage, view, tracking, id, noteId, writeOk)
        IN  /\ Apply(e, Op("deleteNote", id, noteId, 0, <<>>, <<>>, <<>>, "", e))
            /\ UNCHANGED clock

UpdateNoteOf(texts) ==
    \E id \in Ids, noteId \in Ids, text \in texts, writeOk \in WriteOutcomes :
        LET e == updateNote(storage, view, tracking, id, noteId, text, clock, writeOk)
        IN  /\ Apply(e, Op("updateNote", id, noteId, 0, <<>>, <<>>, <<>>, text, e))
            /\ UNCHANGED clock

\* The whole program, ratings at the edges of the range and one note text
\* per operation.
SubmitForm == SubmitFormOf(Forms)
SetRating == SetRatingOf(EdgeRatings)
KeyRating == KeyRatingOf({MaxRating})
AddNote == AddNoteOf({"n1"}, MaxNotes)
UpdateNote == UpdateNoteOf({"n2"})

Next ==
    \/ Tick
    \/ Return
    \/ Render
    \/ SubmitForm
    \/ DeletePrompt
    \/ SetRating
    \/ AddNote
    \/ DeleteNote
    \/ UpdateNote
    \/ EnterEditMode
    \/ KeyRating

Spec == Init /\ [][Next]_vars

\* The collection alone: the form, the Delete button and the stars, on
\* records without notes.
NextForm ==
    \/ Tick
    \/ Return
    \/ Render
    \/ SubmitForm
    \/ DeletePrompt
    \/ SetRating

SpecForm == Init /\ [][NextForm]_vars

\* The ratings alone: every value of RatingValues, on records made from
\* one form.
PlainForms == {<<<<" ", "a", " ">>, <<" ", " ", " ", "x", " ", "y">>, <<" ", "g", " ">>>>}
SubmitPlain == SubmitFormOf(PlainForms)
SetRatingAny == SetRatingOf(RatingValues)
KeyRatingAny == KeyRatingOf(MinRating..MaxRating)

NextRating ==
    \/ Tick
    \/ Return
    \/ SubmitPlain
    \/ DeletePrompt
    \/ SetRatingAny
    \/ KeyRatingAny

SpecRating == Init /\ [][NextRating]_vars

\* The notes alone: both texts, up to MaxNotesDeep notes.
AddNoteAny == AddNoteOf(NoteTexts, MaxNotesDeep)
UpdateNoteAny == UpdateNoteOf(NoteTexts)

NextNotes ==
    \/ Tick
    \/ Return
    \/ SubmitPlain
    \/ AddNoteAny
    \/ DeleteNote
    \/ UpdateNoteAny

SpecNotes == Init /\ [][NextNotes]_vars

\* A session on a store this code did not write, where setItem can throw.
InitFaulty ==
    /\ faulty = TRUE
    /\ storage \in ForeignBlobs
    /\ InitCommon

SpecFaulty == InitFaulty /\ [][Next]_vars

\* Records an earlier iteration of the script stored: with or without a
\* userRating, a notes array (empty, or of one note) and a metadata.
LegacyRecords ==
    {[id |-> 1, title |-> <<"a">>, content |-> <<"x">>,
      hasRating |-> r > 0, userRating |-> r,
      hasNotes |-> n # "absent",
      notes |-> IF n = "one" THEN <<NewNote(1, "n1", 1)>> ELSE <<>>,
      hasMeta |-> m,
      metadata |-> IF m THEN trackModel(<<"g">>, <<"x">>, toISOString(1))
                   ELSE NoMetadata] :
        r \in {0, MaxRating - 2}, n \in {"absent", "none", "one"}, m \in BOOLEAN}

\* A session on a store that holds one such record.
InitLegacy ==
    /\ faulty = FALSE
    /\ storage \in {Stringify(<<p>>) : p \in LegacyRecords}
    /\ InitCommon

\* What is done to such a record: it is shown, rated, given a note.
NextLegacy ==
    \/ Tick
    \/ Return
    \/ Render
    \/ SubmitPlain
    \/ SetRating
    \/ AddNote
    \/ EnterEditMode

SpecLegacy == InitLegacy /\ [][NextLegacy]_vars

\* A text of n words of len characters, one space between two words and
\* pad spaces at each end.
WordsText(n, len, pad) ==
    [i \in 1..(IF n = 0 THEN 2 * pad ELSE 2 * pad + n * len + n - 1) |->
        IF i <= pad \/ i > pad + n * len + n - 1 THEN " "
        ELSE IF (i - pad) % (len + 1) = 0 THEN " " ELSE "a"]

\* What estimateTokens is called with: short texts, texts whose estimates
\* are at the edges of the confidence levels, and values that are no text.
\* words is the number of words the text was built from.
EstimateInputs ==
    {[words |-> n, value |-> Value("string", WordsText(n, len, pad))] :
        n \in 0..MaxWords, len \in 1..MaxWordLen, pad \in 0..1}
    \cup {[words |-> n, value |-> Value("string", WordsText(n, 1, 0))] :
            n \in {1599, 1600, 8000, 8001}}
    \cup {[words |-> 0, value |-> Value(t, <<>>)] : t \in {"number", "undefined", "object"}}

\* A call of estimateTokens; lastOp keeps the call and what came of it.
Estimate ==
    \E in \in EstimateInputs, isCode \in BOOLEAN :
        LET r == estimateTokensCall(in.value, isCode) IN
        /\ Idle
        /\ lastOp' = [op |-> "estimateTokens", words |-> in.words,
                      value |-> in.value, isCode |-> isCode,
                      out |-> IF r.threw THEN "threw" ELSE "done",
                      wrote |-> "none", result |-> r]
        /\ UNCHANGED <<tracking, faulty, storage, clock, view, editing>>

NextEstimate ==
    \/ Return
    \/ Estimate

SpecEstimate == Init /\ [][NextEstimate]_vars

\* The entries of an import file: records another library exported, with
\* ids the clock has taken and fields unlike those the form here makes.
Imported ==
    {NewPrompt(id, <<"b">>, <<"z">>, FALSE, NoMetadata) : id \in 1..MaxClock}
ImportFiles ==
    {<<>>} \cup {<<p>> : p \in Imported} \cup {<<p, q>> : p, q \in Imported}

Import ==
    \E incoming \in ImportFiles, writeOk \in WriteOutcomes :
        LET e == importPrompts(storage, view, tracking, incoming, writeOk)
        IN  /\ Stored.kind = "array" => Len(Stored.arr) + Len(incoming) <= MaxPrompts + 1
            /\ Apply(e, [incoming |-> incoming]
                            @@ Op("import", 0, 0, 0, <<>>, <<>>, <<>>, "", e))
            /\ UNCHANGED clock

\* The form and the import.
NextImport ==
    \/ Tick
    \/ Return
    \/ SubmitPlain
    \/ DeletePrompt
    \/ Import

SpecImport == Init /\ [][NextImport]_vars

\* The handlers that read or write the key, on records made from one form.
Items == Len(Coll(storage)) + NoteCount
SubmitCore == Items < MaxItems /\ SubmitPlain
AddNoteCore == Items < MaxItems /\ AddNote

NextCore ==
    \/ Tick
    \/ Return
    \/ Render
    \/ EnterEditMode
    \/ SubmitCore
    \/ DeletePrompt
    \/ SetRating
    \/ AddNoteCore
    \/ DeleteNote
    \/ UpdateNote

SpecCore == Init /\ [][NextCore]_vars

\* ----------------------------------------------------------- vocabulary
\* What the claims below speak of.
Before == Coll(storage)
After == Coll(storage')
HasId(coll, id) == \E i \in 1..Len(coll) : coll[i].id = id
\* The record an id names: the first that has it.
FirstWithId(coll, id) ==
    CHOOSE i \in 1..Len(coll) :
        coll[i].id = id /\ \A j \in 1..(i - 1) : coll[j].id # id
NotesOf(p) == IF p.hasNotes THEN p.notes ELSE <<>>
NonBlank(text) == Trim(text) # <<>>
\* The handler that ran last was the form's, with fields the form accepts.
ValidSubmit(op) ==
    /\ op.op = "submit"
    /\ NonBlank(op.title)
    /\ NonBlank(op.content)
    /\ tracking => (NonBlank(op.modelName) /\ Len(op.modelName) <= MaxModelLen)

\* ----------------------------------------------------------------- claims
\* C1: after the form is submitted with a title and a content that are not
\* blank, the collection read back holds a record whose title and content
\* are the trimmed inputs and whose userRating is 0.
C1_AddThenReadContains ==
    ValidSubmit(lastOp) =>
        \E i \in 1..Len(Coll(storage)) :
            /\ Coll(storage)[i].title = Trim(lastOp.title)
            /\ Coll(storage)[i].content = Trim(lastOp.content)
            /\ Coll(storage)[i].hasRating
            /\ Coll(storage)[i].userRating = 0

\* A record typed with blanks around it was added to a collection that
\* already held one.
C1_Witness ==
    /\ ValidSubmit(lastOp)
    /\ lastOp.title # Trim(lastOp.title)
    /\ lastOp.content # Trim(lastOp.content)
    /\ lastOp.had = 1
    /\ Len(Coll(storage)) = 2

\* C2: after deletePrompt(id) no record read back has that id, and when no
\* record had it the collection is as it was.
C2_DeleteRemoves ==
    [][lastOp'.op = "deletePrompt" =>
          /\ ~HasId(After, lastOp'.id)
          /\ ~HasId(Before, lastOp'.id) => After = Before]_vars

\* One of two records was deleted.
C2_Witness ==
    /\ lastOp.op = "deletePrompt"
    /\ lastOp.had = 2
    /\ Len(Coll(storage)) = 1

\* C3: setRating(id, v) changes nothing when v is outside 1..5 or no record
\* has the id; otherwise the record the id names gets userRating v.
C3_SetRatingExact ==
    [][lastOp'.op = "setRating" =>
          IF lastOp'.value \in MinRating..MaxRating /\ HasId(Before, lastOp'.id)
          THEN LET i == FirstWithId(Before, lastOp'.id) IN
               /\ Len(After) = Len(Before)
               /\ After[i].id = lastOp'.id
               /\ After[i].hasRating
               /\ After[i].userRating = lastOp'.value
          ELSE After = Before]_vars

\* A record rated 5 is there after a rating of 6 was asked for.
C3_Witness ==
    /\ lastOp.op = "setRating"
    /\ lastOp.value = MaxRating + 1
    /\ HasId(Coll(storage), lastOp.id)
    /\ Coll(storage)[FirstWithId(Coll(storage), lastOp.id)].userRating = MaxRating

\* C4: no two records of the collection have the same id.
C4_IdsUnique ==
    \A i, j \in 1..Len(Coll(storage)) :
        i # j => Coll(storage)[i].id # Coll(storage)[j].id

\* C5: whatever the key holds, a read of it yields a sequence of records,
\* and no handler ends in an uncaught error.
C5_LoadTotal ==
    /\ Stored.kind = "array"
    /\ lastOp.out # "threw"

\* What the handler of op leaves behind when it runs on the key's value raw
\* and the list cards, reads the clock at t1 and t2, and its write succeeds.
Replay(op, raw, cards, t1, t2) ==
    CASE op.op = "submit" ->
            submitForm(raw, cards, tracking, op.title, op.content, op.modelName,
                       t1, t2, TRUE)
      [] op.op = "deletePrompt" -> deletePrompt(raw, cards, tracking, op.id, TRUE)
      [] op.op = "setRating" -> setRating(raw, cards, tracking, op.id, op.value, TRUE)
      [] op.op = "addNote" ->
            addNote(raw, cards, tracking, op.id, op.text, t1, t2, TRUE)
      [] op.op = "deleteNote" ->
            deleteNote(raw, cards, tracking, op.id, op.noteId, TRUE)
      [] op.op = "updateNote" ->
            updateNote(raw, cards, tracking, op.id, op.noteId, op.text, t1, TRUE)
      [] OTHER -> Effect(raw, cards, "done", "none")

\* C6: a handler whose write fails still ends normally, and the list it
\* renders shows its mutation: the same cards as when the write succeeds.
C6_FailedWriteKeepsMutation ==
    [][lastOp'.wrote = "failed" =>
          /\ lastOp'.out = "done"
          /\ view' = Replay(lastOp', storage, view, clock, clock').view]_vars

\* The form's fields that addRecord refuses.
InvalidSubmit(op) ==
    /\ op.op = "submit"
    /\ \/ ~NonBlank(op.title)
       \/ ~NonBlank(op.content)
       \/ tracking /\ ~NonBlank(op.modelName)
       \/ tracking /\ Len(op.modelName) > MaxModelLen

\* C7: a submit with a blank title or content, or in the tracking script a
\* model name that is blank or longer than 100 characters, is refused: no
\* write, and the key keeps its value.
C7_InvalidRejected ==
    [][InvalidSubmit(lastOp') =>
          /\ lastOp'.out \in {"rejected", "alert"}
          /\ lastOp'.wrote = "none"
          /\ storage' = storage]_vars

\* A model name of more than 100 characters, 99 after trimming, was refused
\* on a collection that holds a record.
C7_Witness ==
    /\ InvalidSubmit(lastOp)
    /\ lastOp.out = "alert"
    /\ Len(lastOp.modelName) > MaxModelLen
    /\ Len(Trim(lastOp.modelName)) < MaxModelLen
    /\ Len(Coll(storage)) >= 1

\* Newest first: creation instants (the id, and createdAt where there is
\* metadata) never increase along the collection.
NewestFirst(coll) ==
    \A i, j \in 1..Len(coll) :
        i < j =>
            /\ coll[i].id >= coll[j].id
            /\ (coll[i].hasMeta /\ coll[j].hasMeta) =>
                  DateValue(coll[i].metadata.createdAt)
                      >= DateValue(coll[j].metadata.createdAt)

\* C8: an accepted submit puts the new record first, ahead of the records
\* that were there, in their order; the stored order is always newest
\* first, and the list shows the records in the stored order.
C8_PrependsNewestFirst ==
    [][/\ ValidSubmit(lastOp') =>
             /\ Len(After) = Len(Before) + 1
             /\ Tail(After) = Before
             /\ Head(After).title = Trim(lastOp'.title)
             /\ Head(After).content = Trim(lastOp'.content)
       /\ NewestFirst(After)
       /\ view' = NormalizeAll(After)]_vars

\* A record was added ahead of an older one.
C8_Witness ==
    /\ ValidSubmit(lastOp)
    /\ Len(Coll(storage)) = 2
    /\ Coll(storage)[1].id > Coll(storage)[2].id

\* The note operation op has no target in coll: no record has the id, or
\* (updateNote, deleteNote) the record it names has no note with the note id.
TargetMissing(op, coll) ==
    /\ op.op \in {"addNote", "updateNote", "deleteNote"}
    /\ \/ ~HasId(coll, op.id)
       \/ /\ op.op # "addNote"
          /\ \A n \in 1..Len(NotesOf(coll[FirstWithId(coll, op.id)])) :
                NotesOf(coll[FirstWithId(coll, op.id)])[n].id # op.noteId

\* C9: a note operation whose target is missing raises no error and leaves
\* the collection as it was.
C9_MissingTargetNoop ==
    [][TargetMissing(lastOp', Before) =>
          /\ lastOp'.out # "threw"
          /\ After = Before]_vars

\* updateNote returned early on a record that has notes, none with the id.
C9_Witness ==
    /\ lastOp.op = "updateNote"
    /\ lastOp.out = "noop"
    /\ HasId(Coll(storage), lastOp.id)
    /\ Len(NotesOf(Coll(storage)[FirstWithId(Coll(storage), lastOp.id)])) >= 1

\* Within each record the notes' ids never increase.
NotesNewestFirst(coll) ==
    \A i \in 1..Len(coll) :
        \A a, b \in 1..Len(NotesOf(coll[i])) :
            a < b => NotesOf(coll[i])[a].id >= NotesOf(coll[i])[b].id

\* C10: addNote on a record that exists, with or without a notes field,
\* puts the new note first, ahead of the notes that were there, in their
\* order: one note more, and the notes stay newest first.
C10_AddNotePrepends ==
    [][(lastOp'.op = "addNote" /\ HasId(Before, lastOp'.id) =>
            LET i == FirstWithId(Before, lastOp'.id) IN
            /\ Len(After) = Len(Before)
            /\ After[i].hasNotes
            /\ Len(After[i].notes) = Len(NotesOf(Before[i])) + 1
            /\ Head(After[i].notes).text = lastOp'.text
            /\ Tail(After[i].notes) = NotesOf(Before[i]))
       /\ NotesNewestFirst(After)]_vars

\* A note was added to a record that had notes already.
C10_Witness ==
    /\ lastOp.op = "addNote"
    /\ lastOp.out = "done"
    /\ HasId(Coll(storage), lastOp.id)
    /\ Len(NotesOf(Coll(storage)[FirstWithId(Coll(storage), lastOp.id)])) = MaxNotesDeep

\* C11: within each record the ids of its notes are pairwise distinct, also
\* after two addNote calls on the record in the same millisecond.
C11_NoteIdsUnique ==
    \A i \in 1..Len(Coll(storage)) :
        \A a, b \in 1..Len(NotesOf(Coll(storage)[i])) :
            a # b => NotesOf(Coll(storage)[i])[a].id # NotesOf(Coll(storage)[i])[b].id

\* card is the record raw brought to the current shape: a userRating of 0
\* and an empty notes where raw had none, every other field as in raw.
Shaped(card, raw) ==
    /\ card.id = raw.id
    /\ card.title = raw.title
    /\ card.content = raw.content
    /\ card.hasMeta = raw.hasMeta
    /\ card.metadata = raw.metadata
    /\ card.hasRating
    /\ card.userRating = (IF raw.hasRating THEN raw.userRating ELSE 0)
    /\ card.hasNotes
    /\ card.notes = (IF raw.hasNotes THEN raw.notes ELSE <<>>)

\* C12: the records a render shows are the stored records normalized: a
\* missing userRating is 0, a missing notes is empty, every other field,
\* an absent metadata too, is as stored; and normalizing a record so
\* shown returns it unchanged.
C12_NormalizeShapes ==
    [][(lastOp'.op # "enterEditMode" /\ lastOp'.out = "done" /\ ~Idle') =>
          /\ Len(view') = Len(After)
          /\ \A i \in 1..Len(After) :
                \E j \in 1..Len(view') : Shaped(view'[j], After[i])
          /\ ~tracking => \A i \in 1..Len(After) : Shaped(view'[i], After[i])
          /\ \A j \in 1..Len(view') : Normalize(view'[j]) = view'[j]]_vars

\* A stored record without userRating, notes and metadata was rendered,
\* next to a rated record that has a note.
C12_Witness ==
    /\ lastOp.op = "render"
    /\ Len(view) = 2
    /\ \E i \in 1..2 :
          /\ ~Coll(storage)[i].hasRating
          /\ ~Coll(storage)[i].hasNotes
          /\ ~Coll(storage)[i].hasMeta
    /\ \E i \in 1..2 :
          /\ Coll(storage)[i].userRating > 0
          /\ Len(Coll(storage)[i].notes) > 0

\* The handlers that save.
Writers == {"submit", "deletePrompt", "setRating", "addNote", "updateNote", "deleteNote"}

\* C13: a render (on load or on Cancel), with the normalizing and sorting
\* it does, and entering edit mode leave the key's value as it was; the
\* value changes only in a step of addPrompt, deletePrompt, setRating,
\* addNote, updateNote or deleteNote that wrote it.
C13_ReadsNeverWrite ==
    [][/\ lastOp'.op \in {"render", "enterEditMode"} =>
             storage' = storage /\ lastOp'.wrote = "none"
       /\ storage' # storage =>
             lastOp'.op \in Writers /\ lastOp'.wrote = "ok"]_vars

\* A note is in edit mode, in a list that shows with an empty notes a
\* record stored without the field.
C13_Witness ==
    /\ lastOp.op = "enterEditMode"
    /\ lastOp.out = "done"
    /\ editing # {}
    /\ \E i \in 1..Len(Coll(storage)) :
          /\ ~Coll(storage)[i].hasNotes
          /\ \E j \in 1..Len(view) :
                view[j].id = Coll(storage)[i].id /\ view[j].hasNotes

\* No two records of coll have the same id.
UniqueIds(coll) ==
    \A i, j \in 1..Len(coll) : i # j => coll[i].id # coll[j].id

\* C14: an import merges by id with the existing records winning: every
\* incoming id that no existing record has is in the result, every
\* existing record is in the result with its fields unchanged, also when
\* an incoming record has its id, and no two records of the result have
\* the same id.
C14_MergeByIdUnion ==
    [][lastOp'.op = "import" =>
          /\ \A k \in 1..Len(lastOp'.incoming) :
                HasId(After, lastOp'.incoming[k].id)
          /\ \A i \in 1..Len(Before) :
                \E j \in 1..Len(After) : After[j] = Before[i]
          /\ Len(After) <= Len(Before) + Len(lastOp'.incoming)
          /\ UniqueIds(After)]_vars

\* The rating a render shows for the stored record p.
ShownRating(p) == IF p.hasRating THEN p.userRating ELSE 0

\* C15: every record's rating is an integer from 0 to 5, and it is 0
\* exactly on the records never rated with success: a record starts at 0,
\* a setRating with a value from 1 to 5 gives the record it names that
\* value, and no other step changes the rating of a record that stays.
C15_RatingRangeAndZero ==
    [][/\ \A i \in 1..Len(After) : ShownRating(After[i]) \in 0..MaxRating
       /\ ValidSubmit(lastOp') =>
             ShownRating(Head(After)) = 0 /\ Tail(After) = Before
       /\ lastOp'.op = "setRating" =>
             /\ Len(After) = Len(Before)
             /\ \A i \in 1..Len(Before) :
                   IF /\ lastOp'.value \in MinRating..MaxRating
                      /\ HasId(Before, lastOp'.id)
                      /\ i = FirstWithId(Before, lastOp'.id)
                   THEN ShownRating(After[i]) = lastOp'.value
                   ELSE After[i] = Before[i]
       /\ lastOp'.op \notin {"submit", "setRating"} =>
             \A j \in 1..Len(After) :
                \E i \in 1..Len(Before) :
                    /\ After[j].id = Before[i].id
                    /\ ShownRating(After[j]) = ShownRating(Before[i])]_vars

\* A rated record stands next to one that a rating of 0 has left unrated.
C15_Witness ==
    /\ lastOp.op = "setRating"
    /\ lastOp.value = MinRating - 1
    /\ Len(Coll(storage)) = 2
    /\ \E i, j \in 1..2 :
          /\ Coll(storage)[i].id = lastOp.id
          /\ Coll(storage)[i].userRating = 0
          /\ Coll(storage)[j].userRating \in MinRating..MaxRating

\* r is x rounded to the nearest integer, halves up, where x = num / den.
IsRounded(r, num, den) ==
    /\ 2 * den * r <= 2 * num + den
    /\ 2 * num + den < 2 * den * (r + 1)

\* C16: for a text of w words and c characters estimateTokens returns
\* min = round(0.75 w) and max = round(0.25 c), each times 1.3 and rounded
\* again for code, with confidence "high" when their mean is under 1000,
\* "medium" up to 5000 and "low" above; for a value that is no text it
\* throws and returns no estimate.
C16_EstimateFormula ==
    lastOp.op = "estimateTokens" =>
        IF lastOp.value.type # "string" THEN lastOp.result.threw
        ELSE LET e == lastOp.result.estimate
                 w == lastOp.words
                 c == Len(lastOp.value.text)
                 m == CHOOSE r \in 0..w : IsRounded(r, 3 * w, 4)
                 x == CHOOSE r \in 0..c : IsRounded(r, c, 4)
             IN  /\ ~lastOp.result.threw
                 /\ IF lastOp.isCode
                    THEN IsRounded(e.min, 13 * m, 10) /\ IsRounded(e.max, 13 * x, 10)
                    ELSE e.min = m /\ e.max = x
                 /\ e.confidence = "high" <=> e.min + e.max < 2 * 1000
                 /\ e.confidence = "medium" <=>
                       (e.min + e.max >= 2 * 1000 /\ e.min + e.max <= 2 * 5000)
                 /\ e.confidence = "low" <=> e.min + e.max > 2 * 5000

\* A code text of 7 = round(1.3 * 5) tokens at most, padded with spaces
\* that count as characters and not as words.
C16_Witness ==
    /\ lastOp.op = "estimateTokens"
    /\ lastOp.isCode
    /\ lastOp.out = "done"
    /\ lastOp.result.estimate.max = 7
    /\ lastOp.words = MaxWords
    /\ Head(lastOp.value.text) = " "

\* C17: every estimate returned is a range: 0 <= min <= max.
C17_RangeWellFormed ==
    (lastOp.op = "estimateTokens" /\ lastOp.out = "done") =>
        /\ 0 <= lastOp.result.estimate.min
        /\ lastOp.result.estimate.min <= lastOp.result.estimate.max

\* The operations on one record.
RecordOps == {"setRating", "addNote", "updateNote", "deleteNote"}

\* C18: setRating, addNote, updateNote and deleteNote on a record id leave
\* the collection's length and order, every other record, and the target's
\* id, title, content and metadata as they were; on the target setRating
\* changes the rating only, the note operations the notes only, and
\* updateNote only the text and updatedAt of the note it names.
C18_OnlyTargetChanges ==
    [][lastOp'.op \in RecordOps =>
          /\ Len(After) = Len(Before)
          /\ \A i \in 1..Len(Before) :
                /\ After[i].id = Before[i].id
                /\ After[i].title = Before[i].title
                /\ After[i].content = Before[i].content
                /\ After[i].hasMeta = Before[i].hasMeta
                /\ After[i].metadata = Before[i].metadata
                /\ Before[i].id # lastOp'.id => After[i] = Before[i]
                /\ (HasId(Before, lastOp'.id) /\ i # FirstWithId(Before, lastOp'.id))
                      => After[i] = Before[i]
                /\ lastOp'.op = "setRating" =>
                      NotesOf(After[i]) = NotesOf(Before[i])
                /\ lastOp'.op # "setRating" =>
                      ShownRating(After[i]) = ShownRating(Before[i])
                /\ lastOp'.op = "updateNote" =>
                      /\ Len(NotesOf(After[i])) = Len(NotesOf(Before[i]))
                      /\ \A k \in 1..Len(NotesOf(Before[i])) :
                            /\ NotesOf(After[i])[k].id = NotesOf(Before[i])[k].id
                            /\ NotesOf(Before[i])[k].id # lastOp'.noteId =>
                                  NotesOf(After[i])[k] = NotesOf(Before[i])[k]]_vars

\* The note of the second of two records was given another text; the
\* first record has another id.
C18_Witness ==
    /\ lastOp.op = "updateNote"
    /\ lastOp.out = "done"
    /\ Len(Coll(storage)) = 2
    /\ Coll(storage)[1].id # lastOp.id
    /\ Coll(storage)[2].id = lastOp.id
    /\ Len(Coll(storage)[2].notes) = 1
    /\ Coll(storage)[2].notes[1].text = lastOp.text

\* C19: in the tracking script every stored record's metadata has the
\* token estimate of the record's stored content and an updatedAt not
\* before its createdAt; the record an accepted submit has just stored has
\* the trimmed model name and equal createdAt and updatedAt.
C19_MetadataDerived ==
    /\ \A i \in 1..Len(Coll(storage)) :
          Coll(storage)[i].hasMeta =>
             /\ Coll(storage)[i].metadata.tokenEstimate
                   = estimateTokens(Coll(storage)[i].content, FALSE)
             /\ DateValue(Coll(storage)[i].metadata.updatedAt)
                   >= DateValue(Coll(storage)[i].metadata.createdAt)
    /\ (tracking /\ ValidSubmit(lastOp)) =>
          /\ Head(Coll(storage)).hasMeta
          /\ Head(Coll(storage)).metadata.model = Trim(lastOp.modelName)
          /\ Head(Coll(storage)).metadata.updatedAt
                = Head(Coll(storage)).metadata.createdAt

=============================================================================
